---- MODULE Spec2Model ----
(***************************************************************************)
(* Model of the API-browser extension: the service worker that correlates  *)
(* webRequest events by requestId and aggregates them into one bounded     *)
(* table per tab (chrome.storage.session), and the popup operations that   *)
(* write the same storage (clear, settings).                               *)
(*                                                                         *)
(* Strings the code inspects (URLs, header values, regular expressions)    *)
(* are sequences of one-character strings, so that parsing, normalising    *)
(* and matching are computed and not assumed.                              *)
(***************************************************************************)
EXTENDS Integers, Sequences, FiniteSets, TLC

----------------------------------------------------------------------------
(* Bounds of the model.                                                    *)

\* Stands for DEFAULT_SETTINGS.maxPerTab (2000 in the source): the largest
\* capacity a tab table has in the model.
MaxPerTabBound == 2

\* Number of asynchronous handlers that can be suspended at the same time.
MaxHandlers == 2

\* Number of events the host and the popup deliver in one behaviour.
MaxEvents == 4

\* Number of events of the start, headers, completed pipeline.
PipelineEvents == 3

\* Number of events delivered in one behaviour when every listener runs to
\* its end before the next event is delivered.
MaxSeqEvents == 8

\* Largest value of Date.now() in the model.
MaxClock == 1

----------------------------------------------------------------------------
(* Characters and strings.                                                 *)

Digits == <<"0", "1", "2", "3", "4", "5", "6", "7", "8", "9">>

IsDigit(c) == \E d \in 1..10 : Digits[d] = c

DigitValue(c) == (CHOOSE d \in 1..10 : Digits[d] = c) - 1

IsSpace(c) == c = " "

UpperCase ==
    <<"A", "B", "C", "D", "E", "F", "G", "H", "I", "J", "K", "L", "M",
      "N", "O", "P", "Q", "R", "S", "T", "U", "V", "W", "X", "Y", "Z">>

LowerCase ==
    <<"a", "b", "c", "d", "e", "f", "g", "h", "i", "j", "k", "l", "m",
      "n", "o", "p", "q", "r", "s", "t", "u", "v", "w", "x", "y", "z">>

\* String.prototype.toLowerCase, and the folding of the "i" flag, on ASCII.
Lower(c) ==
    IF \E k \in 1..26 : UpperCase[k] = c
    THEN LowerCase[CHOOSE k \in 1..26 : UpperCase[k] = c]
    ELSE c

\* s.startsWith(p, i): p occurs in s at position i (1-based).
OccursAt(p, s, i) ==
    /\ i + Len(p) - 1 <= Len(s)
    /\ \A k \in 1..Len(p) : s[i + k - 1] = p[k]

\* Position of the first c in s at or after position i, Len(s) + 1 when none.
RECURSIVE FirstOf(_, _, _)
FirstOf(cs, s, i) ==
    IF i > Len(s) THEN Len(s) + 1
    ELSE IF s[i] \in cs THEN i
    ELSE FirstOf(cs, s, i + 1)

Slice(s, from, to) == IF from > to THEN <<>> ELSE SubSeq(s, from, to)

----------------------------------------------------------------------------
(* Nullable values: <<>> is null / undefined, <<v>> a present value.        *)

Null == <<>>

Some(v) == <<v>>

IsNull(x) == x = <<>>

\* A status is null, an integer code <<"int", n>> or the string <<"str", "ERR">>.
IntStatus(n) == <<"int", n>>

ERR == <<"str", "ERR">>

\* String(statusCode), the statusCounts key of a non-null status.
String(status) ==
    IF status[1] = "str" THEN status[2]
    ELSE CASE status[2] = 200 -> "200"
           [] status[2] = 404 -> "404"

----------------------------------------------------------------------------
(* toIntOrNull: parseInt(String(v), 10), null for null and for NaN.         *)

RECURSIVE DigitRun(_, _)
\* Number of leading digits of s from position i.
DigitRun(s, i) ==
    IF i <= Len(s) /\ IsDigit(s[i]) THEN 1 + DigitRun(s, i + 1) ELSE 0

RECURSIVE DecimalValue(_, _, _)
\* Value of the n digits of s that end at position last.
DecimalValue(s, last, n) ==
    IF n = 0 THEN 0
    ELSE 10 * DecimalValue(s, last - 1, n - 1) + DigitValue(s[last])

RECURSIVE SkipSpace(_, _)
SkipSpace(s, i) ==
    IF i <= Len(s) /\ IsSpace(s[i]) THEN SkipSpace(s, i + 1) ELSE i

\* parseInt(s, 10): leading white space, an optional sign, then digits up to
\* the first character that is no digit; NaN (Null here) without any digit.
ParseInt(s) ==
    LET i == SkipSpace(s, 1)
        signed == i <= Len(s) /\ s[i] \in {"-", "+"}
        j == IF signed THEN i + 1 ELSE i
        n == DigitRun(s, j)
        mag == DecimalValue(s, j + n - 1, n)
    IN IF n = 0 THEN Null
       ELSE IF signed /\ s[i] = "-" THEN Some(0 - mag) ELSE Some(mag)

toIntOrNull(v) == IF IsNull(v) THEN Null ELSE ParseInt(v[1])

----------------------------------------------------------------------------
(* normalizeUrl: new URL(rawUrl) on absolute http URLs, the raw string     *)
(* when the parse throws.                                                  *)

HttpScheme == <<"h", "t", "t", "p", ":", "/", "/">>

\* new URL(raw): [ok, origin, pathname, search]; ok = FALSE where it throws
\* (no scheme, no host).
ParseUrl(raw) ==
    LET hostFrom == Len(HttpScheme) + 1
        hostEnd == FirstOf({"/", "?", "#"}, raw, hostFrom)
        pathEnd == FirstOf({"?", "#"}, raw, hostEnd)
        queryEnd == FirstOf({"#"}, raw, pathEnd)
        path == Slice(raw, hostEnd, pathEnd - 1)
        query == Slice(raw, pathEnd, queryEnd - 1)
    IN IF ~OccursAt(HttpScheme, raw, 1) \/ hostEnd = hostFrom
       THEN [ok |-> FALSE, origin |-> <<>>, pathname |-> <<>>, search |-> <<>>]
       ELSE [ok |-> TRUE,
             origin |-> Slice(raw, 1, hostEnd - 1),
             pathname |-> IF path = <<>> THEN <<"/">> ELSE path,
             search |-> IF Len(query) <= 1 THEN <<>> ELSE query]

normalizeUrl(rawUrl, includeQueryString) ==
    LET u == ParseUrl(rawUrl)
    IN IF ~u.ok THEN rawUrl
       ELSE IF includeQueryString THEN u.origin \o u.pathname \o u.search
       ELSE u.origin \o u.pathname

----------------------------------------------------------------------------
(* Regular expressions. A pattern source is a sequence of atoms:           *)
(*   <<"lit", c>>   the character c                                        *)
(*   <<"opt", c>>   c?                                                     *)
(*   <<"digits">>   \d+                                                    *)
(*   <<"end", cs>>  (?:c|$) for the characters c of cs                     *)
(*   <<"bad">>      text that new RegExp rejects                           *)

Lit(str) == [k \in 1..Len(str) |-> <<"lit", str[k]>>]

Opt(c) == <<<<"opt", c>>>>

DigitsPlus == <<<<"digits">>>>

EndOr(cs) == <<<<"end", cs>>>>

Bad == <<<<"bad">>>>

\* new RegExp(p, "i") does not throw.
Compiles(p) == \A k \in 1..Len(p) : p[k][1] # "bad"

RECURSIVE MatchFrom(_, _, _, _)
\* The atoms of re from index k match s from position i.
MatchFrom(re, k, s, i) ==
    IF k > Len(re) THEN TRUE
    ELSE LET a == re[k]
             here(c) == i <= Len(s) /\ Lower(s[i]) = Lower(c)
         IN CASE a[1] = "lit" -> here(a[2]) /\ MatchFrom(re, k + 1, s, i + 1)
              [] a[1] = "opt" ->
                   \/ here(a[2]) /\ MatchFrom(re, k + 1, s, i + 1)
                   \/ MatchFrom(re, k + 1, s, i)
              [] a[1] = "digits" ->
                   \E n \in 1..DigitRun(s, i) : MatchFrom(re, k + 1, s, i + n)
              [] a[1] = "end" ->
                   \/ i = Len(s) + 1 /\ MatchFrom(re, k + 1, s, i)
                   \/ /\ i <= Len(s)
                      /\ s[i] \in a[2]
                      /\ MatchFrom(re, k + 1, s, i + 1)
              [] OTHER -> FALSE

\* r.test(target): the pattern matches somewhere in target.
Test(re, target) == \E i \in 1..(Len(target) + 1) : MatchFrom(re, 1, target, i)

safeRegexList(patterns) == SelectSeq(patterns, Compiles)

----------------------------------------------------------------------------
(* Settings.                                                               *)

Seg(str) == Lit(<<"/">> \o str) \o EndOr({"/"})

Ext(str) == Lit(<<".">> \o str) \o EndOr({"?"})

DEFAULT_SETTINGS ==
    [captureTypes |-> {"xmlhttprequest", "fetch"},
     includeQueryString |-> FALSE,
     apiIncludePatterns |->
        << Seg(<<"a", "p", "i">>),
           Seg(<<"a", "p", "i", "s">>),
           Seg(<<"g", "r", "a", "p", "h", "q", "l">>),
           Seg(<<"g", "q", "l">>),
           Seg(<<"r", "e", "s", "t">>),
           Lit(<<"/", "v">>) \o DigitsPlus \o EndOr({"/"}),
           Seg(<<"r", "p", "c">>),
           Lit(<<"/", "s", "e", "r", "v", "i", "c", "e">>) \o Opt("s") \o EndOr({"/"}) >>,
     apiExcludePatterns |->
        << Ext(<<"j", "s">>),
           Ext(<<"c", "s", "s">>),
           Ext(<<"p", "n", "g">>),
           Ext(<<"j", "p", "g">>),
           Ext(<<"j", "p", "e", "g">>),
           Ext(<<"g", "i", "f">>),
           Ext(<<"s", "v", "g">>),
           Ext(<<"w", "e", "b", "p">>),
           Ext(<<"i", "c", "o">>),
           Lit(<<".", "w", "o", "f", "f">>) \o Opt("2") \o EndOr({"?"}),
           Ext(<<"t", "t", "f">>),
           Ext(<<"m", "a", "p">>) >>,
     maxPerTab |-> MaxPerTabBound]

\* { ...DEFAULT_SETTINGS, ...(stored.settings || {}) }: stored is Null or
\* <<object>>, the object holding any of the settings fields.
MergeSettings(stored) ==
    LET over == IF IsNull(stored) THEN <<>> ELSE stored[1]
    IN [f \in DOMAIN DEFAULT_SETTINGS |->
          IF f \in DOMAIN over THEN over[f] ELSE DEFAULT_SETTINGS[f]]

\* isApiUrl where a match of an include pattern decides alone.
isApiUrl_IncludeWins(url, settings) ==
    LET inc == safeRegexList(settings.apiIncludePatterns)
        exc == safeRegexList(settings.apiExcludePatterns)
        matched == \E k \in 1..Len(inc) : Test(inc[k], url)
        excluded == \E k \in 1..Len(exc) : Test(exc[k], url)
    IN matched \/ (Len(inc) = 0 /\ ~excluded)

isApiUrl(url, settings) ==
    LET inc == safeRegexList(settings.apiIncludePatterns)
        exc == safeRegexList(settings.apiExcludePatterns)
        target == url
        included == IF Len(inc) # 0
                    THEN \E k \in 1..Len(inc) : Test(inc[k], target)
                    ELSE TRUE
        excluded == IF Len(exc) # 0
                    THEN \E k \in 1..Len(exc) : Test(exc[k], target)
                    ELSE FALSE
    IN included /\ ~excluded

makeKey(method, endpoint) == method \o <<" ">> \o endpoint

----------------------------------------------------------------------------
(* The aggregation table of one tab: items maps a key to its record, order *)
(* lists the keys, most recently inserted first.                           *)

EmptyItems == [k \in {} |-> Null]

EmptyTable == [items |-> EmptyItems, order |-> <<>>]

RECURSIVE Highest(_)
\* The largest number of a finite set of naturals, 0 for the empty set.
Highest(ns) ==
    IF ns = {} THEN 0
    ELSE LET n == CHOOSE m \in ns : TRUE
             rest == Highest(ns \ {n})
         IN IF n > rest THEN n ELSE rest

\* History: the insertion number the next record created in the table gets.
NextBorn(items) == 1 + Highest({items[k].born : k \in DOMAIN items})

\* The record upsertApiCall creates for a key it has not seen. Two history
\* fields are added to it: born, the insertion number of the record in its
\* table, and nullSeen, the number of terminal events counted in the record
\* that carried a null status.
NewRecord(key, method, endpoint, now, born) ==
    [key |-> key,
     method |-> method,
     endpoint |-> endpoint,
     count |-> 0,
     firstSeen |-> now,
     lastSeen |-> now,
     lastStatus |-> Null,
     statusCounts |-> [l \in {} |-> 0],
     sizeKnownCount |-> 0,
     sizeSum |-> 0,
     lastSize |-> Null,
     born |-> born,
     nullSeen |-> 0]

\* it.statusCounts[s] = (it.statusCounts[s] || 0) + 1
BumpStatus(statusCounts, s) ==
    IF s \in DOMAIN statusCounts
    THEN [statusCounts EXCEPT ![s] = @ + 1]
    ELSE statusCounts @@ (s :> 1)

\* Touch with lastSeen left as it was when the record was created.
Touch_StaleLastSeen(it, statusCode, sizeBytes, now) ==
    LET counted == [it EXCEPT !.count = @ + 1]
    IN IF ~IsNull(statusCode)
       THEN [counted EXCEPT !.lastStatus = statusCode,
                            !.statusCounts = BumpStatus(@, String(statusCode))]
       ELSE [counted EXCEPT !.nullSeen = @ + 1]

\* Touch with count incremented only for an event that carries a status.
Touch_CountKnownOnly(it, statusCode, sizeBytes, now) ==
    IF ~IsNull(statusCode)
    THEN [it EXCEPT !.count = @ + 1, !.lastSeen = now,
                    !.lastStatus = statusCode,
                    !.statusCounts = BumpStatus(@, String(statusCode))]
    ELSE [it EXCEPT !.lastSeen = now, !.nullSeen = @ + 1]

\* The record after one terminal event: count, lastSeen, status and size.
Touch(it, statusCode, sizeBytes, now) ==
    LET counted == [it EXCEPT !.count = @ + 1, !.lastSeen = now]
        withStatus ==
            IF ~IsNull(statusCode)
            THEN [counted EXCEPT !.lastStatus = statusCode,
                                 !.statusCounts = BumpStatus(@, String(statusCode))]
            ELSE [counted EXCEPT !.nullSeen = @ + 1]
    IN IF ~IsNull(sizeBytes)
       THEN [withStatus EXCEPT !.lastSize = sizeBytes,
                               !.sizeKnownCount = @ + 1,
                               !.sizeSum = @ + sizeBytes[1]]
       ELSE withStatus

\* Index (0-based) at which order.splice(start) begins to remove.
SpliceStart(len, start) ==
    IF start < 0 THEN (IF len + start < 0 THEN 0 ELSE len + start)
    ELSE IF start > len THEN len ELSE start

\* Evict with the bound off by one: order.splice(maxPerTab + 1).
Evict_OffByOne(data, maxPerTab) ==
    IF Len(data.order) > maxPerTab + 1
    THEN LET kept == SubSeq(data.order, 1, maxPerTab + 1)
             removed == {data.order[n] : n \in (maxPerTab + 2)..Len(data.order)}
         IN [items |-> [k \in (DOMAIN data.items) \ removed |-> data.items[k]],
             order |-> kept]
    ELSE data

\* Evict without the deletion of the removed keys' records.
Evict_KeepRecords(data, maxPerTab) ==
    IF Len(data.order) > maxPerTab
    THEN [items |-> data.items,
          order |-> SubSeq(data.order, 1, SpliceStart(Len(data.order), maxPerTab))]
    ELSE data

\* if (order.length > maxPerTab) { removed = order.splice(maxPerTab); delete each }
Evict(data, maxPerTab) ==
    IF Len(data.order) > maxPerTab
    THEN LET keep == SpliceStart(Len(data.order), maxPerTab)
             kept == SubSeq(data.order, 1, keep)
             removed == {data.order[n] : n \in (keep + 1)..Len(data.order)}
         IN [items |-> [k \in (DOMAIN data.items) \ removed |-> data.items[k]],
             order |-> kept]
    ELSE data

\* if (!data.items[key]) { data.items[key] = {...}; data.order.unshift(key); }
Insert(data, key, method, endpoint, now) ==
    IF key \notin DOMAIN data.items
    THEN [items |-> data.items @@
                      (key :> NewRecord(key, method, endpoint, now,
                                        NextBorn(data.items))),
          order |-> <<key>> \o data.order]
    ELSE data

\* Upsert as access-order (LRU) bookkeeping: a hit moves the key to the front.
Upsert_MoveToFront(data, method, endpoint, statusCode, sizeBytes, now, settings) ==
    LET key == makeKey(method, endpoint)
        inserted == Insert(data, key, method, endpoint, now)
        others == SelectSeq(inserted.order, LAMBDA k : k # key)
        touched == [items |-> [inserted.items EXCEPT
                                 ![key] = Touch(@, statusCode, sizeBytes, now)],
                    order |-> <<key>> \o others]
    IN Evict(touched, settings.maxPerTab)

\* The table upsertApiCall writes, from the table and the settings it read.
Upsert(data, method, endpoint, statusCode, sizeBytes, now, settings) ==
    LET key == makeKey(method, endpoint)
        inserted == Insert(data, key, method, endpoint, now)
        touched == [inserted EXCEPT
                      !.items[key] = Touch(@, statusCode, sizeBytes, now)]
    IN Evict(touched, settings.maxPerTab)

----------------------------------------------------------------------------
(* Inputs: what the host, the popup and the storage can deliver.           *)

RequestIds == {"r1", "r2"}

\* details.tabId; -1 is a request that belongs to no tab.
TabIds == {-1, 1}

\* The tabs the popup can be opened on and the browser can close.
OpenTabs == {t \in TabIds : t > 0}

GET == <<"G", "E", "T">>

POST == <<"P", "O", "S", "T">>


UrlUsers ==
    <<"h", "t", "t", "p", ":", "/", "/", "x", "/", "a", "p", "i", "/", "u", "?", "q">>

UrlOrders ==
    <<"h", "t", "t", "p", ":", "/", "/", "x", "/", "v", "1", "/", "o">>

UrlScript == <<"h", "t", "t", "p", ":", "/", "/", "x", "/", "a", ".", "j", "s">>

\* A URL that an include pattern (/api/) and an exclude pattern (.js) match.
UrlApiScript ==
    <<"h", "t", "t", "p", ":", "/", "/", "x", "/", "a", "p", "i", "/", "a", ".", "j", "s">>

\* A URL that no include pattern and no exclude pattern matches.
UrlPage == <<"h", "t", "t", "p", ":", "/", "/", "x", "/", "p">>

\* A request as onBeforeRequest sees it: details.tabId, details.method
\* (absent or a name), details.url and details.type.
Request(t, m, u, ty) == [tabId |-> t, method |-> m, url |-> u, type |-> ty]

RequestInputs ==
    { Request(1, Null, UrlUsers, "fetch"),
      Request(1, Some(POST), UrlUsers, "xmlhttprequest"),
      Request(-1, Null, UrlUsers, "fetch"),
      Request(1, Null, UrlScript, "fetch"),
      Request(1, Null, UrlUsers, "image") }

\* Requests with distinct keys on one tab, all of them tracked under the
\* default patterns.
TrackedRequestInputs ==
    { Request(1, Null, UrlUsers, "fetch"),
      Request(1, Some(POST), UrlUsers, "xmlhttprequest"),
      Request(1, Null, UrlOrders, "fetch") }

\* The tabs of the model with two tabs.
AllTabs == {1, 2}

\* Requests on two tabs, two of them with the same key on different tabs.
TabRequestInputs ==
    { Request(1, Null, UrlUsers, "fetch"),
      Request(2, Null, UrlUsers, "fetch"),
      Request(2, Some(POST), UrlUsers, "xmlhttprequest") }

\* Requests for the classifier: every combination of a captured and an
\* uncaptured type with a URL that matches an include pattern only, an exclude
\* pattern only, both, or neither.
ClassifyRequestInputs ==
    { Request(1, Null, u, ty) :
        u \in {UrlUsers, UrlScript, UrlApiScript, UrlPage},
        ty \in {"fetch", "image"} }

AllRequestInputs ==
    RequestInputs \cup TrackedRequestInputs \cup TabRequestInputs
        \cup ClassifyRequestInputs

\* details.statusCode of a completed event that carries an HTTP status.
HttpStatusInputs == {Some(200), Some(404)}

\* details.statusCode of a completed event: absent or an HTTP status.
StatusCodeInputs == {Null, Some(200)}

ContentLength ==
    <<"C", "o", "n", "t", "e", "n", "t", "-", "L", "e", "n", "g", "t", "h">>

content_length ==
    <<"c", "o", "n", "t", "e", "n", "t", "-", "l", "e", "n", "g", "t", "h">>

\* details.responseHeaders: absent, or a list of name/value pairs.
HeaderInputs ==
    { Null,
      Some(<< [name |-> ContentLength, value |-> <<"7">>] >>) }

\* A list of response headers that holds one header.
Header(name, value) == Some(<< [name |-> name, value |-> value] >>)

\* Lengths a Content-Length header carries, and the text of each.
LengthInputs == {7, 120}

LengthText == (7 :> <<"7">>) @@ (120 :> <<"1", "2", "0">>)

\* Header lists with a length header of a non-negative integer.
LengthHeaderInputs == {Header(ContentLength, LengthText[n]) : n \in LengthInputs}

\* Header lists with a length header that is negative or no number.
OddHeaderInputs ==
    { Header(content_length, <<"-", "5">>),
      Header(ContentLength, <<"a", "b", "c">>) }

AllHeaderInputs == HeaderInputs \cup LengthHeaderInputs \cup OddHeaderInputs

\* History: the non-negative integer the length header of a list states,
\* Null when the list states none.
CarriedOf ==
    [hs \in AllHeaderInputs |->
        IF IsNull(hs) THEN Null
        ELSE LET v == hs[1][1].value
                 ns == {n \in LengthInputs : LengthText[n] = v}
             IN IF ns = {} THEN Null ELSE Some(CHOOSE n \in ns : TRUE)]

\* Values chrome.storage.local can hold under "settings".
StoredSettingsInputs ==
    {Null} \cup {Some([maxPerTab |-> n]) : n \in 1..MaxPerTabBound}

\* Stored settings that change what the classifier does: no include
\* pattern, an include pattern that does not compile, an exclude pattern
\* that matches what an include pattern matches, other captured types, and
\* the query string kept.
ClassifySettingsInputs ==
    { Null,
      Some([apiIncludePatterns |-> <<>>]),
      Some([apiIncludePatterns |-> <<Bad>>]),
      Some([apiExcludePatterns |-> <<Seg(<<"a", "p", "i">>)>>]),
      Some([apiExcludePatterns |-> <<>>]),
      Some([captureTypes |-> {"image"}]),
      Some([includeQueryString |-> TRUE]) }

AllSettingsInputs == StoredSettingsInputs \cup ClassifySettingsInputs

LowerString(str) == [k \in 1..Len(str) |-> Lower(str[k])]

\* headers.find(x => x.name.toLowerCase() === name.toLowerCase())?.value ?? null
getHeaderValue(headers, name) ==
    IF IsNull(headers) THEN Null
    ELSE LET list == headers[1]
             hits == {n \in 1..Len(list) :
                        LowerString(list[n].name) = LowerString(name)}
         IN IF hits = {} THEN Null
            ELSE Some(list[CHOOSE n \in hits : \A o \in hits : n <= o].value)

\* toIntOrNull(getHeaderValue(details.responseHeaders, "content-length")),
\* tabulated over the header lists the host delivers.
ContentLengthOf ==
    [hs \in AllHeaderInputs |-> toIntOrNull(getHeaderValue(hs, content_length))]

\* What onBeforeRequest computes from a request and the stored settings:
\* the endpoint and whether the request is tracked; tabulated over the inputs.
Classified ==
    [q \in AllRequestInputs, v \in AllSettingsInputs |->
        LET settings == MergeSettings(v)
            endpoint == normalizeUrl(q.url, settings.includeQueryString)
        IN [endpoint |-> endpoint,
            tracked |-> /\ q.type \in settings.captureTypes
                        /\ isApiUrl(endpoint, settings)]]

----------------------------------------------------------------------------
(* State.                                                                  *)

VARIABLES
    requestCache,    \* requestId -> Null | <<meta>>: the pending entries
    session,         \* chrome.storage.session: TabKey -> Null | <<table>>
    storedSettings,  \* chrome.storage.local "settings": Null | <<object>>
    handlers,        \* slot -> the suspended async listener in it, or Idle
    clock,           \* Date.now()
    delivered,       \* number of events delivered so far
    entries,         \* history: per pending entry created, its tab and the
                     \*   number of upserts written for it; for the entry
                     \*   created last also its request, the length the
                     \*   last headers event stated for it and the status of
                     \*   the last terminal event that found it
    seen,            \* history: <<tab, key>> -> terminal events written to the
                     \*   record since it was last absent, and the last now
    disturbed,       \* history: tabs that had an eviction, a clear or a closure
    dropped,         \* history: the records the last upsert written removed
                     \*   from the table that was stored
    last             \* history: the last event delivered and what it met

vars ==
    <<requestCache, session, storedSettings, handlers, clock, delivered,
      entries, seen, disturbed, dropped, last>>

TabKey(tabId) == <<"tab:", tabId>>

SessionKeys == {TabKey(t) : t \in {t \in TabIds : t >= 0}}

Slots == 1..MaxHandlers

Idle ==
    [pc |-> "idle", kind |-> "", requestId |-> "", tabId |-> 0, method |-> Null,
     url |-> <<>>, type |-> "", request |-> Null, statusCode |-> Null, sizeBytes |-> Null,
     settings |-> Null, data |-> Null, now |-> 0, entry |-> 0, evicts |-> FALSE]

AllIdle == \A i \in Slots : handlers[i] = Idle

FreeSlot == CHOOSE i \in Slots : handlers[i] = Idle /\ \A j \in Slots : handlers[j] = Idle => i <= j

HasFreeSlot == \E i \in Slots : handlers[i] = Idle

\* await chrome.storage.local.get(["settings"]), merged over the defaults.
getSettings == MergeSettings(storedSettings)

\* obj[key] || { items: {}, order: [] }
getTabData(store, tabId) ==
    IF IsNull(store[TabKey(tabId)]) THEN EmptyTable ELSE store[TabKey(tabId)][1]

\* set() under a key that does not depend on the tab: every table is written.
setTabData_AllKeys(store, tabId, data) == [k \in DOMAIN store |-> Some(data)]

\* chrome.storage.session.set({ [key]: data })
setTabData(store, tabId, data) == [store EXCEPT ![TabKey(tabId)] = Some(data)]

\* remove([key]) written as a set of the empty table.
removeTabData_SetEmpty(store, tabId) ==
    [store EXCEPT ![TabKey(tabId)] = Some(EmptyTable)]

\* chrome.storage.session.remove([key])
removeTabData(store, tabId) == [store EXCEPT ![TabKey(tabId)] = Null]

Init ==
    /\ requestCache = [r \in RequestIds |-> Null]
    /\ session = [k \in SessionKeys |-> Null]
    /\ storedSettings \in StoredSettingsInputs
    /\ handlers = [i \in Slots |-> Idle]
    /\ clock = 0
    /\ delivered = 0
    /\ entries = <<>>
    /\ seen = [p \in {} |-> Null]
    /\ disturbed = {}
    /\ dropped = {}
    /\ last = <<"none", "none">>

\* The state after construction with the store holding `keys` and the
\* stored settings drawn from `settingsInputs`.
InitFrom(keys, settingsInputs) ==
    /\ requestCache = [r \in RequestIds |-> Null]
    /\ session = [k \in keys |-> Null]
    /\ storedSettings \in settingsInputs
    /\ handlers = [i \in Slots |-> Idle]
    /\ clock = 0
    /\ delivered = 0
    /\ entries = <<>>
    /\ seen = [p \in {} |-> Null]
    /\ disturbed = {}
    /\ dropped = {}
    /\ last = <<"none", "none">>

\* The table of a tab on which two requests were aggregated while the
\* settings were the defaults.
AggregatedTable ==
    LET endpoint == normalizeUrl(UrlUsers, FALSE)
        one == Upsert(EmptyTable, GET, endpoint, IntStatus(200), Null, 0,
                      DEFAULT_SETTINGS)
    IN Upsert(one, POST, endpoint, IntStatus(200), Null, 0, DEFAULT_SETTINGS)

\* The service worker starts again while the browser session goes on: the
\* pending entries are gone, and chrome.storage.session still holds the table
\* of a tab that was aggregated before.
InitRestarted ==
    /\ requestCache = [r \in RequestIds |-> Null]
    /\ session = [k \in SessionKeys |->
                    IF k = TabKey(1) THEN Some(AggregatedTable) ELSE Null]
    /\ storedSettings \in StoredSettingsInputs
    /\ handlers = [i \in Slots |-> Idle]
    /\ clock = 0
    /\ delivered = 0
    /\ entries = IF IsNull(session[TabKey(1)]) THEN <<>>
                 ELSE [e \in 1..Len(AggregatedTable.order) |->
                         [tab |-> 1, request |-> Null, upserts |-> 1,
                          length |-> Null, status |-> Null]]
    /\ seen = IF IsNull(session[TabKey(1)]) THEN [p \in {} |-> Null]
              ELSE [p \in {<<1, k>> : k \in DOMAIN AggregatedTable.items} |->
                      [n |-> AggregatedTable.items[p[2]].count,
                       now |-> AggregatedTable.items[p[2]].lastSeen]]
    /\ disturbed = {}
    /\ dropped = {}
    /\ last = <<"none", "none">>

----------------------------------------------------------------------------
(* The listeners. An async listener runs to its first await when its event *)
(* is delivered and is then suspended in a slot; each later action resumes *)
(* one suspended listener up to its next await or its end.                 *)

Resting(i) == [handlers EXCEPT ![i] = Idle]

\* History: the records of tab t that remain in `seen` when the stored table
\* of t holds the keys `kept`.
Forget(t, kept) ==
    LET dom == {p \in DOMAIN seen : p[1] # t \/ p[2] \in kept}
    IN [p \in dom |-> seen[p]]

\* History: the entries when entry e has met `value` as its `field`; only the
\* entry created last is followed.
Noted(e, field, value) ==
    IF e = Len(entries) THEN [entries EXCEPT ![e][field] = value] ELSE entries

\* History: the entries when a new entry is created for the listener h.
Created(h) ==
    Append([e \in 1..Len(entries) |->
              [entries[e] EXCEPT !.request = Null, !.length = Null,
                                 !.status = Null]],
           [tab |-> h.tabId, request |-> h.request, upserts |-> 0,
            length |-> Null, status |-> Null])

\* 1) onBeforeRequest is delivered: the listener suspends on getSettings().
OnBeforeRequest(r, q, budget) ==
    /\ delivered < budget
    /\ HasFreeSlot
    /\ handlers' = [handlers EXCEPT ![FreeSlot] =
                      [Idle EXCEPT !.pc = "start", !.kind = "start",
                                   !.requestId = r,
                                   !.tabId = q.tabId, !.method = q.method,
                                   !.url = q.url, !.type = q.type,
                                   !.request = Some(q)]]
    /\ delivered' = delivered + 1
    /\ last' = <<"start", "suspended">>
    /\ UNCHANGED <<requestCache, session, storedSettings, clock, entries,
                   seen, disturbed, dropped>>

\* The pending entry with the URL as the host sent it.
NewMeta_RawUrl(h, endpoint) ==
    [tabId |-> h.tabId,
     method |-> IF IsNull(h.method) THEN GET ELSE h.method[1],
     endpoint |-> h.url,
     sizeBytes |-> Null,
     entry |-> Len(entries) + 1]

\* The pending entry onBeforeRequest stores.
NewMeta(h, endpoint) ==
    [tabId |-> h.tabId,
     method |-> IF IsNull(h.method) THEN GET ELSE h.method[1],
     endpoint |-> endpoint,
     sizeBytes |-> Null,
     entry |-> Len(entries) + 1]

\* onBeforeRequest resumes with the settings: filter, normalise, classify,
\* store the pending entry.
BeforeRequestResumed(i) ==
    LET h == handlers[i]
        verdict == Classified[h.request[1], storedSettings]
        endpoint == verdict.endpoint
        tracked == verdict.tracked
    IN /\ h.pc = "start"
       /\ requestCache' =
            IF tracked
            THEN [requestCache EXCEPT ![h.requestId] = Some(NewMeta(h, endpoint))]
            ELSE requestCache
       /\ entries' =
            IF tracked
            THEN Created(h)
            ELSE entries
       /\ handlers' = Resting(i)
       /\ UNCHANGED <<session, storedSettings, clock, delivered, seen, disturbed,
                      dropped, last>>

\* onHeadersReceived without its `if (!meta) return`: an event that finds no
\* entry stores one that holds the size alone.
OnHeadersReceived_NoGuard(r, hs, budget) ==
    LET meta == requestCache[r]
        size == ContentLengthOf[hs]
        found == IF IsNull(meta)
                 THEN [tabId |-> -1, method |-> GET, endpoint |-> <<>>,
                       sizeBytes |-> Null, entry |-> 0]
                 ELSE meta[1]
    IN /\ delivered < budget
       /\ delivered' = delivered + 1
       /\ requestCache' =
            [requestCache EXCEPT ![r] =
               Some([found EXCEPT !.sizeBytes = IF ~IsNull(size) THEN size ELSE @])]
       /\ entries' =
            IF ~IsNull(meta) /\ ~IsNull(CarriedOf[hs])
            THEN Noted(meta[1].entry, "length", CarriedOf[hs])
            ELSE entries
       /\ last' = <<"headers", IF IsNull(meta) THEN "miss" ELSE "hit">>
       /\ UNCHANGED <<session, storedSettings, handlers, clock,
                      seen, disturbed, dropped>>

\* 2) onHeadersReceived: synchronous.
OnHeadersReceived(r, hs, budget) ==
    LET meta == requestCache[r]
        size == ContentLengthOf[hs]
    IN /\ delivered < budget
       /\ delivered' = delivered + 1
       /\ IF IsNull(meta)
          THEN /\ last' = <<"headers", "miss">>
               /\ UNCHANGED <<requestCache, entries>>
          ELSE /\ requestCache' =
                    [requestCache EXCEPT ![r] =
                       Some([meta[1] EXCEPT !.sizeBytes =
                                IF ~IsNull(size) THEN size ELSE @])]
               /\ entries' =
                    IF ~IsNull(CarriedOf[hs])
                    THEN Noted(meta[1].entry, "length", CarriedOf[hs])
                    ELSE entries
               /\ last' = <<"headers", "hit">>
       /\ UNCHANGED <<session, storedSettings, handlers, clock,
                      seen, disturbed, dropped>>

\* 3) 4) onCompleted / onErrorOccurred are delivered: look the entry up and
\* call upsertApiCall, which returns at once for a negative tabId and else
\* suspends on getSettings().
Terminal(kind, r, statusCode, budget) ==
    LET meta == requestCache[r]
    IN /\ delivered < budget
       /\ delivered' = delivered + 1
       /\ IF IsNull(meta)
          THEN /\ last' = <<kind, "miss">>
               /\ UNCHANGED <<requestCache, handlers, entries>>
          ELSE IF meta[1].tabId < 0
          THEN /\ requestCache' = [requestCache EXCEPT ![r] = Null]
               /\ entries' = Noted(meta[1].entry, "status", Some(statusCode))
               /\ last' = <<kind, "untabbed">>
               /\ UNCHANGED handlers
          ELSE /\ HasFreeSlot
               /\ handlers' = [handlers EXCEPT ![FreeSlot] =
                     [Idle EXCEPT !.pc = "getSettings", !.kind = kind,
                                  !.requestId = r,
                                  !.tabId = meta[1].tabId,
                                  !.method = Some(meta[1].method),
                                  !.url = meta[1].endpoint,
                                  !.statusCode = statusCode,
                                  !.sizeBytes = meta[1].sizeBytes,
                                  !.entry = meta[1].entry]]
               /\ entries' = Noted(meta[1].entry, "status", Some(statusCode))
               /\ last' = <<kind, "suspended">>
               /\ UNCHANGED requestCache
       /\ UNCHANGED <<session, storedSettings, clock, seen, disturbed, dropped>>

\* details.statusCode ?? null
OnCompleted(r, sc, budget) ==
    Terminal("completed", r, IF IsNull(sc) THEN Null ELSE IntStatus(sc[1]), budget)

\* onErrorOccurred passing no status to the upsert.
OnErrorOccurred_NoStatus(r, budget) == Terminal("error", r, Null, budget)

OnErrorOccurred(r, budget) == Terminal("error", r, ERR, budget)

\* upsertApiCall resumes with the settings and suspends on getTabData().
UpsertGotSettings(i) ==
    LET h == handlers[i]
    IN /\ h.pc = "getSettings"
       /\ handlers' = [handlers EXCEPT ![i] =
                         [h EXCEPT !.pc = "getTabData", !.settings = Some(getSettings)]]
       /\ UNCHANGED <<requestCache, session, storedSettings, clock, delivered,
                      entries, seen, disturbed, dropped, last>>

\* upsertApiCall resumes with the tab's table, updates its copy with
\* now = Date.now() and suspends on setTabData().
UpsertGotTabData(i) ==
    LET h == handlers[i]
        data == getTabData(session, h.tabId)
        key == makeKey(h.method[1], h.url)
        settings == h.settings[1]
        grown == Insert(data, key, h.method[1], h.url, clock)
        next == Upsert(data, h.method[1], h.url, h.statusCode, h.sizeBytes,
                       clock, settings)
    IN /\ h.pc = "getTabData"
       /\ handlers' = [handlers EXCEPT ![i] =
                         [h EXCEPT !.pc = "setTabData", !.data = Some(next),
                                   !.now = clock,
                                   !.evicts = Len(next.order) < Len(grown.order)]]
       /\ UNCHANGED <<requestCache, session, storedSettings, clock, delivered,
                      entries, seen, disturbed, dropped, last>>

\* setTabData() is applied and resolves: upsertApiCall returns and the
\* listener deletes the pending entry.
UpsertWritten(i) ==
    LET h == handlers[i]
        t == h.tabId
        data == h.data[1]
        key == makeKey(h.method[1], h.url)
        stored == getTabData(session, t)
        remembered == Forget(t, DOMAIN data.items)
        before == IF <<t, key>> \in DOMAIN remembered
                  THEN remembered[<<t, key>>].n ELSE 0
    IN /\ h.pc = "setTabData"
       /\ session' = setTabData(session, t, data)
       /\ requestCache' = [requestCache EXCEPT ![h.requestId] = Null]
       /\ handlers' = Resting(i)
       /\ entries' = [entries EXCEPT ![h.entry].upserts = @ + 1]
       /\ seen' = IF key \in DOMAIN data.items
                  THEN [p \in (DOMAIN remembered) \cup {<<t, key>>} |->
                          IF p = <<t, key>>
                          THEN [n |-> before + 1, now |-> h.now]
                          ELSE remembered[p]]
                  ELSE remembered
       /\ disturbed' = IF h.evicts THEN disturbed \cup {t} ELSE disturbed
       /\ dropped' = {stored.items[k] :
                        k \in (DOMAIN stored.items) \ (DOMAIN data.items)}
       /\ UNCHANGED <<storedSettings, clock, delivered, last>>

\* The storage call a listener is suspended on rejects: the await throws and
\* the listener ends there.
StorageRejected(i) ==
    LET h == handlers[i]
    IN /\ h.pc \in {"start", "getSettings", "getTabData", "setTabData"}
       /\ handlers' = Resting(i)
       /\ UNCHANGED <<requestCache, session, storedSettings, clock, delivered,
                      entries, seen, disturbed, dropped, last>>

\* chrome.tabs.onRemoved: the tab's table is removed from the store.
OnTabRemoved(t, budget) ==
    /\ delivered < budget
    /\ delivered' = delivered + 1
    /\ session' = removeTabData(session, t)
    /\ seen' = Forget(t, {})
    /\ disturbed' = disturbed \cup {t}
    /\ last' = <<"removed", "done">>
    /\ UNCHANGED <<requestCache, storedSettings, handlers, clock, entries,
                   dropped>>

\* popup clearTab: the active tab's table is replaced by the empty table.
ClearTab(t, budget) ==
    /\ delivered < budget
    /\ delivered' = delivered + 1
    /\ session' = setTabData(session, t, EmptyTable)
    /\ seen' = Forget(t, {})
    /\ disturbed' = disturbed \cup {t}
    /\ last' = <<"clear", "done">>
    /\ UNCHANGED <<requestCache, storedSettings, handlers, clock, entries,
                   dropped>>

\* The stored settings are replaced (the settings store is written from
\* outside the service worker).
SettingsChanged(v, budget) ==
    /\ delivered < budget
    /\ delivered' = delivered + 1
    /\ v # storedSettings
    /\ storedSettings' = v
    /\ last' = <<"settings", "done">>
    /\ UNCHANGED <<requestCache, session, handlers, clock, entries, seen,
                   disturbed, dropped>>

\* Date.now() advances.
Tick ==
    /\ clock < MaxClock
    /\ clock' = clock + 1
    /\ UNCHANGED <<requestCache, session, storedSettings, handlers, delivered,
                   entries, seen, disturbed, dropped, last>>

\* The events the host, the popup and the settings store deliver.
Starts(rids, requests, budget) ==
    \E r \in rids, q \in requests : OnBeforeRequest(r, q, budget)

HeadersOf(rids, lists, budget) ==
    \E r \in rids, hs \in lists : OnHeadersReceived(r, hs, budget)

Headers(rids, budget) == HeadersOf(rids, HeaderInputs, budget)

Completions(rids, codes, budget) ==
    \E r \in rids, sc \in codes : OnCompleted(r, sc, budget)

Errors(rids, budget) == \E r \in rids : OnErrorOccurred(r, budget)

Removals(budget) == \E t \in OpenTabs : OnTabRemoved(t, budget)

Clears(budget) == \E t \in OpenTabs : ClearTab(t, budget)

SettingsChanges(budget) ==
    \E v \in StoredSettingsInputs : SettingsChanged(v, budget)

\* A suspended listener resumes.
Resume ==
    \E i \in Slots :
        \/ BeforeRequestResumed(i)
        \/ UpsertGotSettings(i)
        \/ UpsertGotTabData(i)
        \/ UpsertWritten(i)
        \/ StorageRejected(i)

Next ==
    \/ Starts(RequestIds, RequestInputs, MaxEvents)
    \/ Headers(RequestIds, MaxEvents)
    \/ Completions(RequestIds, StatusCodeInputs, MaxEvents)
    \/ Errors(RequestIds, MaxEvents)
    \/ Removals(MaxEvents)
    \/ Clears(MaxEvents)
    \/ SettingsChanges(MaxEvents)
    \/ Resume
    \/ Tick

Spec == Init /\ [][Next]_vars

\* The same program when an event is delivered only after every listener
\* of the events before it has finished, for one request at a time; its
\* terminal events are completions without a status code and errors.
NextSeq ==
    \/ AllIdle /\ Starts({"r1"}, TrackedRequestInputs, MaxSeqEvents)
    \/ AllIdle /\ Completions({"r1"}, {Null}, MaxSeqEvents)
    \/ AllIdle /\ Errors({"r1"}, MaxSeqEvents)
    \/ AllIdle /\ Clears(MaxSeqEvents)
    \/ AllIdle /\ Removals(MaxSeqEvents)
    \/ Resume
    \/ Tick

SpecSeq == Init /\ [][NextSeq]_vars

\* The program after a restart of the service worker.
SpecRestarted == InitRestarted /\ [][Next]_vars

\* The classifier: start events only, over every classifier input and
\* under every settings object, which changes between and during them.
NextClassify ==
    \/ Starts({"r1"}, ClassifyRequestInputs, MaxEvents)
    \/ \E v \in ClassifySettingsInputs : SettingsChanged(v, MaxEvents)
    \/ \E i \in Slots : BeforeRequestResumed(i)
    \/ \E i \in Slots : StorageRejected(i)

SpecClassify ==
    InitFrom(SessionKeys, ClassifySettingsInputs) /\ [][NextClassify]_vars

\* One request through the pipeline: start, headers with a length, and
\* completion with a status, each delivered when no listener is suspended.
NextPipeline ==
    \/ AllIdle /\ Starts({"r1"}, TrackedRequestInputs, PipelineEvents)
    \/ AllIdle /\ HeadersOf({"r1"}, LengthHeaderInputs, PipelineEvents)
    \/ AllIdle /\ Completions({"r1"}, HttpStatusInputs, PipelineEvents)
    \/ Resume
    \/ Tick

SpecPipeline == Init /\ [][NextPipeline]_vars

\* One request id whose headers events carry every header list of the
\* model: lengths of 7 and 120, a negative length, text that is no number,
\* and no header at all.
NextHeaders ==
    \/ Starts({"r1"}, TrackedRequestInputs, MaxEvents)
    \/ HeadersOf({"r1"}, AllHeaderInputs, MaxEvents)
    \/ Completions({"r1"}, HttpStatusInputs, MaxEvents)
    \/ Resume
    \/ Tick

SpecHeaders == Init /\ [][NextHeaders]_vars

\* Two tabs: requests on both, with headers and errored, and both tabs
\* cleared and closed.
NextTabs ==
    \/ Starts(RequestIds, TabRequestInputs, MaxEvents)
    \/ HeadersOf(RequestIds, LengthHeaderInputs, MaxEvents)
    \/ Errors(RequestIds, MaxEvents)
    \/ \E t \in AllTabs : OnTabRemoved(t, MaxEvents)
    \/ \E t \in AllTabs : ClearTab(t, MaxEvents)
    \/ Resume
    \/ Tick

SpecTabs ==
    InitFrom({TabKey(t) : t \in AllTabs}, StoredSettingsInputs)
        /\ [][NextTabs]_vars

----------------------------------------------------------------------------
(* Properties.                                                             *)

RECURSIVE SumOver(_, _)
\* The sum of f[k] over the keys ks.
SumOver(f, ks) ==
    IF ks = {} THEN 0
    ELSE LET k == CHOOSE x \in ks : TRUE
         IN f[k] + SumOver(f, ks \ {k})

\* The sum of the counts of the records of a table.
SumCounts(data) ==
    SumOver([k \in DOMAIN data.items |-> data.items[k].count], DOMAIN data.items)

\* The number of upserts written for the entries of tab t.
UpsertsOf(t) ==
    SumOver([e \in 1..Len(entries) |->
               IF entries[e].tab = t THEN entries[e].upserts ELSE 0],
            1..Len(entries))

\* The stored tables.
StoredTabs == {t \in TabIds : t >= 0 /\ ~IsNull(session[TabKey(t)])}

\* Every pending entry was consumed by at most one upsert.
NoEntryUpsertedTwice == \A e \in 1..Len(entries) : entries[e].upserts <= 1

\* C1: no update is lost, whatever the interleaving: once every listener has
\* finished, the counts of a tab's records add up to the number of upserts
\* performed on the tab (one per tracked request), unless the tab had an
\* eviction, a clear or a closure.
C1_NoLostUpdate ==
    \A t \in OpenTabs :
        (AllIdle /\ t \notin disturbed /\ NoEntryUpsertedTwice) =>
            SumCounts(getTabData(session, t)) = UpsertsOf(t)

\* C2: when every terminal event of a (tab, method, endpoint) is handled to
\* its end before the next event is delivered, the record's count is the
\* number N of these events since the record was last absent, and its lastSeen
\* is the timestamp of the last of them.
C2_CountAndLastSeen ==
    \A p \in DOMAIN seen :
        LET data == getTabData(session, p[1])
        IN /\ p[2] \in DOMAIN data.items
           /\ data.items[p[2]].count = seen[p].n
           /\ data.items[p[2]].lastSeen = seen[p].now

\* A record that counted two terminal events, the second later than the first.
C2_Witness ==
    \E p \in DOMAIN seen :
        LET data == getTabData(session, p[1])
        IN /\ seen[p].n >= 2
           /\ p[2] \in DOMAIN data.items
           /\ data.items[p[2]].count >= 2
           /\ data.items[p[2]].lastSeen > data.items[p[2]].firstSeen

\* The sum of the values of a record's statusCounts.
SumStatus(it) == SumOver(it.statusCounts, DOMAIN it.statusCounts)

\* C3: in every stored record the values of statusCounts add up to at most
\* count, and to less than count when a counted event carried a null status.
C3_StatusSumBound ==
    \A t \in StoredTabs :
        LET items == getTabData(session, t).items
        IN \A k \in DOMAIN items :
              /\ SumStatus(items[k]) <= items[k].count
              /\ items[k].nullSeen > 0 => SumStatus(items[k]) < items[k].count

\* A stored record that counted an event with a status and one without.
C3_Witness ==
    \E t \in StoredTabs :
        LET items == getTabData(session, t).items
        IN \E k \in DOMAIN items :
              items[k].nullSeen > 0 /\ SumStatus(items[k]) > 0

\* The key of the record of a table that was inserted first.
Earliest(items) ==
    CHOOSE k \in DOMAIN items : \A j \in DOMAIN items : items[k].born <= items[j].born

\* C4: eviction is by insertion order. An upsert of a new key into a table
\* that holds maxPerTab records leaves maxPerTab records: the new key in
\* front and the old ones in their order without the one inserted first,
\* however often that one was hit; an upsert of a key the table holds leaves
\* order as it is.
C4_InsertionOrderEviction ==
    [][\A i \in Slots :
          UpsertWritten(i) =>
            LET h == handlers[i]
                key == makeKey(h.method[1], h.url)
                max == h.settings[1].maxPerTab
                old == getTabData(session, h.tabId)
                new == getTabData(session', h.tabId)
            IN /\ (key \in DOMAIN old.items /\ Len(old.order) <= max) =>
                     new.order = old.order
               /\ (key \notin DOMAIN old.items /\ Len(old.order) = max) =>
                     /\ Len(new.order) = max
                     /\ Cardinality(DOMAIN new.items) = max
                     /\ DOMAIN new.items =
                          ((DOMAIN old.items) \cup {key}) \ {Earliest(old.items)}
                     /\ new.order = <<key>> \o SubSeq(old.order, 1, max - 1)
                     /\ dropped' = {old.items[Earliest(old.items)]}
      ]_vars

\* An upsert has evicted, from a table of two or more records, a record that
\* had been hit again after its insertion.
C4_Witness ==
    \E t \in StoredTabs :
        /\ AllIdle
        /\ Len(getTabData(session, t).order) >= 2
        /\ Len(getTabData(session, t).order) = getSettings.maxPerTab
        /\ \E rec \in dropped : rec.count >= 2

\* C5: every table an upsert writes holds at most maxPerTab records, for the
\* maxPerTab that upsert read, also when the stored table is larger because
\* the setting was lowered.
C5_WrittenTablesBounded ==
    \A i \in Slots :
        handlers[i].pc = "setTabData" =>
            LET data == handlers[i].data[1]
                max == handlers[i].settings[1].maxPerTab
            IN /\ Len(data.order) <= max
               /\ Cardinality(DOMAIN data.items) <= max

\* An upsert is about to write a table it has truncated to a bound that is
\* lower than the size of the stored table.
C5_Witness ==
    \E i \in Slots :
        /\ handlers[i].pc = "setTabData"
        /\ handlers[i].evicts
        /\ handlers[i].settings[1].maxPerTab = getSettings.maxPerTab
        /\ Len(getTabData(session, handlers[i].tabId).order)
             > handlers[i].settings[1].maxPerTab

\* C6: when the upsert of a terminal event fails, the pending entry of its
\* requestId is removed all the same.
C6_FailedUpsertDropsEntry ==
    [][\A i \in Slots :
          (handlers[i].pc # "start" /\ StorageRejected(i)) =>
              IsNull(requestCache'[handlers[i].requestId])
      ]_vars

\* C7: the correlator holds no entry whose tabId is negative.
C7_NoNegativeTabEntry ==
    \A r \in RequestIds :
        ~IsNull(requestCache[r]) => requestCache[r][1].tabId >= 0

\* C8: at most one upsert is performed for a pending entry, however many
\* terminal events are delivered for its requestId.
C8_AtMostOneUpsertPerEntry ==
    \A e \in DOMAIN entries : entries[e].upserts < 2

\* C9: a headers-received, completed or errored event whose requestId has no
\* pending entry changes neither the correlator nor a tab table, and leaves
\* no listener suspended that could fail later.
C9_MissIsNoOp ==
    [][\A r \in RequestIds :
          ( /\ IsNull(requestCache[r])
            /\ \/ Headers({r}, MaxEvents)
               \/ Completions({r}, StatusCodeInputs, MaxEvents)
               \/ Errors({r}, MaxEvents) ) =>
              UNCHANGED <<requestCache, session, handlers, entries>>
      ]_vars

\* An event has been delivered that found no pending entry.
C9_Witness == last[2] = "miss"

\* C10: when the tab-closed notification has been handled, the store holds
\* no table for the tab and a read of the tab returns the empty table.
C10_ClosedTabReadsEmpty ==
    [][\A t \in OpenTabs :
          OnTabRemoved(t, MaxEvents) =>
              /\ IsNull(session'[TabKey(t)])
              /\ getTabData(session', t) = EmptyTable
      ]_vars

\* The closure of a tab on which a request had been aggregated has been
\* handled.
C10_Witness ==
    /\ last = <<"removed", "done">>
    /\ \E t \in OpenTabs :
          /\ UpsertsOf(t) > 0
          /\ IsNull(session[TabKey(t)])
          /\ getTabData(session, t) = EmptyTable

\* What the decision rule says of a request under the stored settings v,
\* from the patterns themselves: whether its type is captured, whether no
\* include pattern compiles, and whether its normalized endpoint matches an
\* include and an exclude pattern.
Qualifies ==
    [q \in ClassifyRequestInputs, v \in ClassifySettingsInputs |->
        LET settings == MergeSettings(v)
            endpoint == normalizeUrl(q.url, settings.includeQueryString)
            inc == settings.apiIncludePatterns
            exc == settings.apiExcludePatterns
        IN [captured |-> q.type \in settings.captureTypes,
            includeEmpty |-> \A k \in 1..Len(inc) : ~Compiles(inc[k]),
            matchesInclude |->
                \E k \in 1..Len(inc) : Compiles(inc[k]) /\ Test(inc[k], endpoint),
            matchesExclude |->
                \E k \in 1..Len(exc) : Compiles(exc[k]) /\ Test(exc[k], endpoint)]]

\* C11: a start event creates a pending entry only if its type is captured
\* and its endpoint is classified as API traffic: the include set (the
\* patterns that compile) is empty or one of them matches, and no exclude
\* pattern matches; an endpoint that an include and an exclude pattern match
\* gets no entry.
C11_EntryOnlyIfClassified ==
    [][\A i \in Slots :
          (BeforeRequestResumed(i) /\ Len(entries') > Len(entries)) =>
              LET f == Qualifies[handlers[i].request[1], storedSettings]
              IN /\ f.captured
                 /\ f.includeEmpty \/ f.matchesInclude
                 /\ ~f.matchesExclude
      ]_vars

\* The correlator holds an entry for an endpoint that no include pattern
\* matches, while the include set is empty; another event created none.
C11_Witness ==
    /\ AllIdle
    /\ delivered >= 2
    /\ storedSettings = Some([apiIncludePatterns |-> <<>>])
    /\ ~IsNull(requestCache["r1"])
    /\ requestCache["r1"][1].endpoint = UrlPage
    /\ Len(entries) = 1

\* statusCounts[label] of the record of key in a table, 0 where there is none.
StatusCount(data, key, label) ==
    IF key \in DOMAIN data.items /\ label \in DOMAIN data.items[key].statusCounts
    THEN data.items[key].statusCounts[label]
    ELSE 0

\* The listener in slot i reads the tab's table and computes the table it
\* will write; Outcome(i, P) says P(key, before, after, max) of its key, the
\* table read, the table computed and the maxPerTab it uses.
Outcome(i, P(_, _, _, _)) ==
    LET h == handlers[i]
    IN P(makeKey(h.method[1], h.url),
         getTabData(session, h.tabId),
         handlers'[i].data[1],
         h.settings[1].maxPerTab)

\* The upsert of the listener in slot i ends: it stores the table it computed.
StoresComputed(i) ==
    getTabData(session', handlers[i].tabId) = handlers[i].data[1]

\* The record of key after an errored event: lastStatus "ERR", one more "ERR".
ErrRecorded(key, before, after) ==
    /\ after.items[key].lastStatus = ERR
    /\ StatusCount(after, key, "ERR") = StatusCount(before, key, "ERR") + 1

\* C12 as stated: after the upsert of an errored event the record of its
\* (tab, method, endpoint) has lastStatus "ERR" and one more "ERR" in
\* statusCounts than before.
C12_ErrAlwaysRecorded ==
    [][\A i \in Slots :
          /\ (handlers[i].kind = "error" /\ UpsertGotTabData(i)) =>
                Outcome(i, LAMBDA key, before, after, max :
                             /\ key \in DOMAIN after.items
                             /\ ErrRecorded(key, before, after))
          /\ (handlers[i].kind = "error" /\ UpsertWritten(i)) => StoresComputed(i)
      ]_vars

\* C12, amended: after the upsert of an errored event the record of its
\* (tab, method, endpoint) has lastStatus "ERR" and one more "ERR" in
\* statusCounts than before, unless that upsert evicts the record: it was in
\* the table read, which held more than maxPerTab records.
C12_ErrRecordedUnlessEvicted ==
    [][\A i \in Slots :
          /\ (handlers[i].kind = "error" /\ UpsertGotTabData(i)) =>
                Outcome(i, LAMBDA key, before, after, max :
                             IF key \in DOMAIN after.items
                             THEN ErrRecorded(key, before, after)
                             ELSE /\ key \in DOMAIN before.items
                                  /\ Len(before.order) > max)
          /\ (handlers[i].kind = "error" /\ UpsertWritten(i)) => StoresComputed(i)
      ]_vars

\* The store holds a record whose last status is "ERR" and which counted a
\* status 200 before the error.
C12_Witness ==
    \E t \in StoredTabs :
        LET data == getTabData(session, t)
        IN \E k \in DOMAIN data.items :
              /\ data.items[k].lastStatus = ERR
              /\ StatusCount(data, k, "ERR") = 1
              /\ StatusCount(data, k, "200") = 1
              /\ data.items[k].count = 2

\* C13: after the upsert of a completed event without a status code the
\* record (where that upsert does not evict it) has lastStatus null and the
\* statusCounts it had before, also when its lastStatus was not null.
C13_NullStatusRecordedUnknown ==
    [][\A i \in Slots :
          ( /\ handlers[i].kind = "completed"
            /\ IsNull(handlers[i].statusCode)
            /\ UpsertGotTabData(i) ) =>
              Outcome(i, LAMBDA key, before, after, max :
                           key \in DOMAIN after.items =>
                             /\ IsNull(after.items[key].lastStatus)
                             /\ after.items[key].statusCounts =
                                  IF key \in DOMAIN before.items
                                  THEN before.items[key].statusCounts
                                  ELSE [l \in {} |-> 0])
      ]_vars

\* The endpoint of each tracked URL when the query string is not kept.
EndpointOf(url) ==
    CASE url = UrlUsers ->
           <<"h", "t", "t", "p", ":", "/", "/", "x", "/", "a", "p", "i", "/", "u">>
      [] url = UrlOrders ->
           <<"h", "t", "t", "p", ":", "/", "/", "x", "/", "v", "1", "/", "o">>

\* The pipeline has run for one request on an empty table: its start created
\* the only pending entry, a headers event stated a length for it, and the
\* upsert of its completed event, the last event delivered, has been written.
PipelineDone ==
    /\ AllIdle
    /\ last = <<"completed", "suspended">>
    /\ Len(entries) = 1
    /\ entries[1].upserts = 1
    /\ ~IsNull(entries[1].length)

\* C14: start, headers with length n, completed with status s, each handled
\* to its end, on a tab with an empty table, leave one record, keyed
\* method + " " + endpoint, with count 1, lastStatus s, lastSize n,
\* sizeKnownCount 1, sizeSum n and statusCounts {s: 1}, and no pending entry.
C14_PipelineRecord ==
    PipelineDone =>
        LET q == entries[1].request[1]
            n == entries[1].length[1]
            s == entries[1].status[1]
            method == IF IsNull(q.method) THEN GET ELSE q.method[1]
            endpoint == EndpointOf(q.url)
            key == method \o <<" ">> \o endpoint
            data == getTabData(session, q.tabId)
        IN /\ DOMAIN data.items = {key}
           /\ data.order = <<key>>
           /\ data.items[key].key = key
           /\ data.items[key].method = method
           /\ data.items[key].endpoint = endpoint
           /\ data.items[key].count = 1
           /\ data.items[key].lastStatus = s
           /\ data.items[key].lastSize = Some(n)
           /\ data.items[key].sizeKnownCount = 1
           /\ data.items[key].sizeSum = n
           /\ data.items[key].statusCounts = (String(s) :> 1)
           /\ IsNull(requestCache["r1"])

\* The pipeline has run for a request with a query string, a length of 120
\* and a status of 404.
C14_Witness ==
    /\ PipelineDone
    /\ entries[1].request[1].url = UrlUsers
    /\ entries[1].length = Some(120)
    /\ entries[1].status = Some(IntStatus(404))
    /\ getTabData(session, 1).order # <<>>

\* The start event of a qualifying request r on a tab has been delivered and
\* no terminal event has consumed it: its listener is still suspended
\* reading the settings, or its pending entry is in the correlator.
StartDelivered(r) ==
    \/ \E i \in Slots :
          /\ handlers[i].pc = "start"
          /\ handlers[i].requestId = r
          /\ handlers[i].tabId >= 0
          /\ Classified[handlers[i].request[1], storedSettings].tracked
    \/ ~IsNull(requestCache[r]) /\ requestCache[r][1].tabId >= 0

\* C15: a terminal event delivered for a qualifying request after its start
\* event performs an upsert (so that the request is aggregated and its entry
\* removed), also when the start listener is still suspended reading the
\* settings.
C15_TerminalAfterStartUpserts ==
    [][\A r \in RequestIds :
          ( /\ StartDelivered(r)
            /\ \/ Completions({r}, StatusCodeInputs, MaxEvents)
               \/ Errors({r}, MaxEvents) ) =>
              \E j \in Slots :
                  /\ handlers[j] = Idle
                  /\ handlers'[j].pc = "getSettings"
                  /\ handlers'[j].requestId = r
      ]_vars

\* A size is null or not negative.
NoNegativeSize(size) == IsNull(size) \/ size[1] >= 0

\* C16: every pending entry's sizeBytes and every record's lastSize is null
\* or >= 0, and every record's sizeSum is >= 0, whatever the length headers
\* said.
C16_SizesNotNegative ==
    /\ \A r \in RequestIds :
          ~IsNull(requestCache[r]) => NoNegativeSize(requestCache[r][1].sizeBytes)
    /\ \A t \in StoredTabs :
          LET items == getTabData(session, t).items
          IN \A k \in DOMAIN items :
                /\ NoNegativeSize(items[k].lastSize)
                /\ items[k].sizeSum >= 0

\* C17: a pending entry's sizeBytes changes at most once: a headers event
\* with a parseable length that finds an entry whose sizeBytes a headers
\* event has set leaves the entry as it is.
C17_SizeSetOnce ==
    [][\A r \in RequestIds :
          ( /\ ~IsNull(requestCache[r])
            /\ ~IsNull(requestCache[r][1].sizeBytes)
            /\ requestCache[r][1].sizeBytes[1] \in LengthInputs
            /\ HeadersOf({r}, LengthHeaderInputs, MaxEvents) ) =>
              requestCache'[r] = requestCache[r]
      ]_vars

\* C18: tab tables are independent: the stored table of a tab changes only
\* in a step attributed to that tab, the write of an upsert for it, its
\* clear or its closure; every step attributed to another tab leaves it
\* unchanged.
C18_TabsIndependent ==
    [][\A b \in AllTabs :
          session'[TabKey(b)] # session[TabKey(b)] =>
              \/ \E i \in Slots : UpsertWritten(i) /\ handlers[i].tabId = b
              \/ OnTabRemoved(b, MaxEvents)
              \/ ClearTab(b, MaxEvents)
      ]_vars

\* Upserts have been written on both tabs for the same method and endpoint,
\* and each tab holds its own record.
C18_Witness ==
    /\ AllIdle
    /\ \A t \in AllTabs :
          LET data == getTabData(session, t)
          IN /\ data.order = <<makeKey(GET, EndpointOf(UrlUsers))>>
             /\ data.items[data.order[1]].count = 1

\* C19: in every stored table order holds no key twice, the keys of order
\* are the keys of items, and every record has count >= 1.
C19_TableStructure ==
    \A t \in StoredTabs :
        LET data == getTabData(session, t)
            places == 1..Len(data.order)
        IN /\ \A a, b \in places : a # b => data.order[a] # data.order[b]
           /\ {data.order[n] : n \in places} = DOMAIN data.items
           /\ \A k \in DOMAIN data.items : data.items[k].count >= 1

\* A stored table that an upsert has written after evicting a record from it
\* and that still holds a record.
C19_Witness ==
    \E t \in StoredTabs :
        /\ AllIdle
        /\ dropped # {}
        /\ t \in disturbed
        /\ getTabData(session, t).order # <<>>

\* C20: a closed tab's table stays removed. When the closure of the tab (the
\* one tab that Spec opens) is the last event delivered and every listener
\* that was in flight has finished, the store holds no table for the tab.
C20_ClosedTabStaysRemoved ==
    (AllIdle /\ last = <<"removed", "done">>) =>
        \A t \in OpenTabs : IsNull(session[TabKey(t)])

====
